---- MODULE Spec2Model ----
(***************************************************************************)
(* Model of the membrane prompts driver (src/index.ts): the registry       *)
(* state.flows and what the plain object inherits, the workflow-side       *)
(* actions io, start, IO.inputText, IO.timeout and IO.end, and the HTTP    *)
(* endpoint, whose rendering of a flow is suspended at every await and     *)
(* resumed later, with any other call, another request included, in        *)
(* between.                                                                *)
(***************************************************************************)
EXTENDS Integers, Sequences, FiniteSets, TLC

\* ------------------------------------------------------------------ bounds
\* Number of steps (genId calls of inputText) over all flows.
MaxSteps == 2

\* ------------------------------------------------------------ input domains
\* Contexts are the flow ids genId gives to start; a flow id is unknown to
\* the registry until io has run for it.
Contexts == {"f1"}
Titles == {"Demo"}
Labels == {"Name?"}
StepIds == 1..MaxSteps
\* The callers of the endpoint: each has at most one request that has not
\* returned, and the requests of different callers overlap.
Clients == {"a", "b"}

NoBody == [present |-> FALSE, text |-> ""]
Answer == [present |-> TRUE, text |-> "{\"value\":\"Ada\"}"]
Answers == {Answer, [present |-> TRUE, text |-> "{\"value\":\"Bob\"}"]}
BodyTexts == {"", "oops", "{}", "{\"value\":\"\"}",
              "{\"value\":\"Ada\"}", "{\"value\":\"Bob\"}"}
Bodies == {NoBody} \cup {[present |-> TRUE, text |-> t] : t \in BodyTexts}

Methods == {"GET", "POST"}
\* The paths: the landing page, /flow/<context> and /flow/<context>/<id>.
FlowPaths == {<<"flow", c>> : c \in Contexts}
StepPaths == {<<"flow", c, s>> : c \in Contexts, s \in StepIds}
Paths == {<<>>} \cup FlowPaths \cup StepPaths

\* The registry specification has two flows.
Registered == Contexts \cup {"f2"}

\* The names `context in state.flows` finds on the prototype of the plain
\* object (some of them), and the names that are no ids of genId with which
\* the prototype specification calls io: the empty string, two inherited
\* names, and "status", which IO.end on "__proto__" makes inherited. Its
\* actions and requests address these and an id that is never registered.
Inherited == {"toString", "constructor", "__proto__"}
Named == {"", "toString", "__proto__", "status"}
Addressed == Named \cup {"f0"}

\* flows is state.flows (its own keys), proto the names of the properties
\* it inherits from Object.prototype, timer the $invokeIn of start per
\* context and ref the title of the reference it was scheduled on, nextId
\* the next step id, pending the endpoint calls that are suspended at an
\* await, last the call or resumption that led to the state.
VARIABLES flows, proto, timer, ref, nextId, pending, last
vars == <<flows, proto, timer, ref, nextId, pending, last>>

\* ------------------------------------------------------------- the promise
\* result: Promise<any> of a FlowStep; a promise settles once.
None == [defined |-> FALSE, text |-> ""]
Str(t) == [defined |-> TRUE, text |-> t]

PendingPromise == [state |-> "pending", value |-> None]

\* A resolver that settles the promise again.
res_overwrite(p, v) == [state |-> "fulfilled", value |-> v]
res(p, v) ==
  IF p.state = "pending" THEN [state |-> "fulfilled", value |-> v] ELSE p

abort(p, reason) ==
  IF p.state = "pending" THEN [state |-> "rejected", value |-> reason] ELSE p

\* ---------------------------------------------------------------- helpers
\* Array.prototype.find on the steps of a flow: index of the first step
\* with the given id, 0 when there is none.
find(steps, stepId) ==
  IF \E i \in 1..Len(steps) : steps[i].id = stepId
  THEN CHOOSE i \in 1..Len(steps) :
         /\ steps[i].id = stepId
         /\ \A j \in 1..(i - 1) : steps[j].id # stepId
  ELSE 0

\* `context in state.flows`: an own key of the registry (fs) or a property
\* that the plain object inherits from Object.prototype (inh).
inFlows(fs, inh, context) == context \in DOMAIN fs \/ context \in inh

\* verifyFlow returns for a non-empty context that is `in` state.flows.
verifyFlow(fs, inh, context) == context # "" /\ inFlows(fs, inh, context)

NotStartedError == [kind |-> "throw", error |-> "Flow not started"]
\* Reading .steps of an inherited property gives undefined; calling or
\* iterating it throws.
TypeError == [kind |-> "throw", error |-> "TypeError"]
Returned == [kind |-> "ok"]
\* The call has not returned: it is suspended at an await.
Pending == [kind |-> "pending"]

\* `flow.status = "done"` of IO.end when the flow read is an inherited value:
\* under "__proto__" it is Object.prototype itself, which gets the property
\* status, so that "status" is `in` state.flows from then on; under "status"
\* it is that string, and the assignment to a property of a primitive throws
\* in module code; under any other inherited name it is a function, which
\* takes the property and is read by nothing.
endWrite(inh, context) ==
  IF context = "__proto__"
  THEN [proto |-> inh \cup {"status"}, resp |-> Returned]
  ELSE IF context = "status"
  THEN [proto |-> inh, resp |-> TypeError]
  ELSE [proto |-> inh, resp |-> Returned]

\* ------------------------------------------------------------------ io
\* `state.flows[context] ??= ...` assigns when the value read is undefined:
\* not for a registered flow, not for an inherited property.
io(fs, inh, title, context) ==
  IF inFlows(fs, inh, context) THEN fs
  ELSE [c \in DOMAIN fs \cup {context} |->
          IF c = context
          THEN [title |-> title, status |-> "not-started", steps |-> <<>>]
          ELSE fs[c]]

\* ----------------------------------------------------------- IO.inputText
\* A closure that marks the first step of the flow instead of its own.
resolve_head(fs, context, stepId, text) ==
  LET i == find(fs[context].steps, stepId)
  IN IF i = 0 THEN fs
     ELSE [fs EXCEPT ![context].steps[i].result = res(@, text),
                     ![context].steps[1].status = "done"]
\* A closure that also completes the flow once every step is done.
resolve_autodone(fs, context, stepId, text) ==
  LET i == find(fs[context].steps, stepId)
      fs1 == IF i = 0 THEN fs
             ELSE [fs EXCEPT ![context].steps[i] =
                     [@ EXCEPT !.result = res(@, text), !.status = "done"]]
  IN IF \A j \in 1..Len(fs1[context].steps) : fs1[context].steps[j].status = "done"
     THEN [fs1 EXCEPT ![context].status = "done"]
     ELSE fs1
\* The resolve closure of a step: res(text), then the step found by id in
\* the flow is marked done.
resolve(fs, context, stepId, text) ==
  LET i == find(fs[context].steps, stepId)
  IN IF i = 0 THEN fs
     ELSE [fs EXCEPT ![context].steps[i] =
             [@ EXCEPT !.result = res(@, text), !.status = "done"]]

\* An inputText that puts the new step in front of the others.
IO_inputText_unshift(fs, inh, context, stepId, label) ==
  IF ~verifyFlow(fs, inh, context) THEN [flows |-> fs, resp |-> NotStartedError]
  ELSE IF context \notin DOMAIN fs THEN [flows |-> fs, resp |-> TypeError]
  ELSE [flows |-> [fs EXCEPT ![context].steps =
                     <<[id |-> stepId, label |-> label, kind |-> "input",
                        status |-> "not-started", result |-> PendingPromise]>> \o @],
        resp |-> Returned]
\* IO.inputText: verifyFlow, then the step is pushed; the push throws when
\* the context is an inherited name, whose .steps is undefined.
IO_inputText(fs, inh, context, stepId, label) ==
  IF ~verifyFlow(fs, inh, context) THEN [flows |-> fs, resp |-> NotStartedError]
  ELSE IF context \notin DOMAIN fs THEN [flows |-> fs, resp |-> TypeError]
  ELSE [flows |-> [fs EXCEPT ![context].steps =
                     Append(@, [id |-> stepId, label |-> label, kind |-> "input",
                                status |-> "not-started", result |-> PendingPromise])],
        resp |-> Returned]

\* ------------------------------------------------------------- IO.timeout
\* A timeout that aborts only the steps nobody has looked at yet.
IO_timeout_not_started(fs, inh, context) ==
  IF ~inFlows(fs, inh, context) THEN [flows |-> fs, resp |-> Returned]
  ELSE IF context \notin DOMAIN fs THEN [flows |-> fs, resp |-> TypeError]
  ELSE LET steps == fs[context].steps
           stepAborted == \E i \in 1..Len(steps) : steps[i].status = "not-started"
           aborted == [i \in 1..Len(steps) |->
                         IF steps[i].status = "not-started"
                         THEN [steps[i] EXCEPT
                                 !.status = "aborted",
                                 !.result = abort(@, Str("Timeout"))]
                         ELSE steps[i]]
       IN [flows |-> [fs EXCEPT ![context] =
                        [@ EXCEPT !.steps = aborted,
                                  !.status = IF stepAborted THEN "aborted" ELSE @]],
           resp |-> Returned]
\* A timeout that marks the flow aborted whether or not a step was aborted.
IO_timeout_always(fs, inh, context) ==
  IF ~inFlows(fs, inh, context) THEN [flows |-> fs, resp |-> Returned]
  ELSE IF context \notin DOMAIN fs THEN [flows |-> fs, resp |-> TypeError]
  ELSE LET steps == fs[context].steps
           aborted == [i \in 1..Len(steps) |->
                         IF steps[i].status # "done"
                         THEN [steps[i] EXCEPT
                                 !.status = "aborted",
                                 !.result = abort(@, Str("Timeout"))]
                         ELSE steps[i]]
       IN [flows |-> [fs EXCEPT ![context] =
                        [@ EXCEPT !.steps = aborted, !.status = "aborted"]],
           resp |-> Returned]
\* IO.timeout: returns when the context is not `in` state.flows; otherwise
\* every step that is not done is aborted (.filter throws for an inherited
\* name) and the flow is aborted when a step passed the filter.
IO_timeout(fs, inh, context) ==
  IF ~inFlows(fs, inh, context) THEN [flows |-> fs, resp |-> Returned]
  ELSE IF context \notin DOMAIN fs THEN [flows |-> fs, resp |-> TypeError]
  ELSE LET steps == fs[context].steps
           stepAborted == \E i \in 1..Len(steps) : steps[i].status # "done"
           aborted == [i \in 1..Len(steps) |->
                         IF steps[i].status # "done"
                         THEN [steps[i] EXCEPT
                                 !.status = "aborted",
                                 !.result = abort(@, Str("Timeout"))]
                         ELSE steps[i]]
       IN [flows |-> [fs EXCEPT ![context] =
                        [@ EXCEPT !.steps = aborted,
                                  !.status = IF stepAborted THEN "aborted" ELSE @]],
           resp |-> Returned]

\* ----------------------------------------------------------------- IO.end
\* An end that also aborts the steps still waiting.
IO_end_aborts_pending(fs, inh, context) ==
  IF ~verifyFlow(fs, inh, context)
  THEN [flows |-> fs, proto |-> inh, resp |-> NotStartedError]
  ELSE IF context \notin DOMAIN fs
  THEN [flows |-> fs, proto |-> endWrite(inh, context).proto,
        resp |-> endWrite(inh, context).resp]
  ELSE [flows |->
          [fs EXCEPT ![context] =
             [@ EXCEPT !.status = "done",
                       !.steps = [i \in 1..Len(@) |->
                                    IF @[i].status \in {"done", "aborted"} THEN @[i]
                                    ELSE [@[i] EXCEPT !.status = "aborted",
                                                      !.result = abort(@, Str("Ended"))]]]],
        proto |-> inh, resp |-> Returned]
\* IO.end: verifyFlow, then flow.status = "done", on the flow of the
\* registry or, for an inherited name, on the value the plain object
\* inherits under it.
IO_end(fs, inh, context) ==
  IF ~verifyFlow(fs, inh, context)
  THEN [flows |-> fs, proto |-> inh, resp |-> NotStartedError]
  ELSE IF context \notin DOMAIN fs
  THEN [flows |-> fs, proto |-> endWrite(inh, context).proto,
        resp |-> endWrite(inh, context).resp]
  ELSE [flows |-> [fs EXCEPT ![context].status = "done"],
        proto |-> inh, resp |-> Returned]

\* ---------------------------------------------------------------- rendering
\* A renderStep that marks every step that is not done as in-progress.
renderStep_reopen(context, step) ==
  LET s == IF step.status # "done"
           THEN [step EXCEPT !.status = "in-progress"] ELSE step
  IN IF s.status = "aborted"
     THEN [step |-> s, outcome |-> "ok",
           html |-> [label |-> s.label, view |-> "aborted", text |-> Str("Aborted")]]
     ELSE IF s.status = "done"
     THEN IF s.result.state = "fulfilled"
          THEN [step |-> s, outcome |-> "ok",
                html |-> [label |-> s.label, view |-> "done", text |-> s.result.value]]
          ELSE IF s.result.state = "rejected"
          THEN [step |-> s, outcome |-> "throw",
                html |-> [label |-> s.label, view |-> "error", text |-> s.result.value]]
          ELSE [step |-> s, outcome |-> "hang",
                html |-> [label |-> s.label, view |-> "error", text |-> None]]
     ELSE [step |-> s, outcome |-> "ok",
           html |-> [label |-> s.label, view |-> "form", text |-> None]]
\* renderStep up to its return or its await: the step after the call
\* (not-started becomes in-progress), the fragment it returns, and whether
\* awaiting step.result throws (a rejected promise) or never returns (a
\* pending one). A settled promise keeps its value, so what the await gives
\* is known when it starts.
renderStep(context, step) ==
  LET s == IF step.status = "not-started"
           THEN [step EXCEPT !.status = "in-progress"] ELSE step
  IN IF s.status = "aborted"
     THEN [step |-> s, outcome |-> "ok",
           html |-> [label |-> s.label, view |-> "aborted", text |-> Str("Aborted")]]
     ELSE IF s.status = "done"
     THEN IF s.result.state = "fulfilled"
          THEN [step |-> s, outcome |-> "ok",
                html |-> [label |-> s.label, view |-> "done", text |-> s.result.value]]
          ELSE IF s.result.state = "rejected"
          THEN [step |-> s, outcome |-> "throw",
                html |-> [label |-> s.label, view |-> "error", text |-> s.result.value]]
          ELSE [step |-> s, outcome |-> "hang",
                html |-> [label |-> s.label, view |-> "error", text |-> None]]
     ELSE [step |-> s, outcome |-> "ok",
           html |-> [label |-> s.label, view |-> "form", text |-> None]]

\* renderNextStep: the first not-started step is rendered, otherwise the
\* polling placeholder unless the flow is done.
renderNextStep(fs, context) ==
  LET steps == fs[context].steps
      found == \E i \in 1..Len(steps) : steps[i].status = "not-started"
      i == CHOOSE k \in 0..Len(steps) :
             IF found
             THEN /\ k > 0
                  /\ steps[k].status = "not-started"
                  /\ \A j \in 1..(k - 1) : steps[j].status # "not-started"
             ELSE k = 0
  IN IF fs[context].status # "done" /\ ~found
     THEN [flows |-> fs, outcome |-> "ok", footer |-> "loading"]
     ELSE IF ~found
     THEN [flows |-> fs, outcome |-> "ok", footer |-> ""]
     ELSE LET r == renderStep(context, steps[i])
          IN [flows |-> [fs EXCEPT ![context].steps[i] = r.step],
              outcome |-> r.outcome, footer |-> "step"]

\* What a piece of the endpoint leaves: the registry, the response (Pending
\* while it is suspended), and for a suspended rendering the number of steps
\* rendered and their fragments.
Answered(fs, resp) == [flows |-> fs, resp |-> resp, i |-> 0, html |-> <<>>]
FlowPage(fs, kind, html, footer) ==
  [flows |-> fs, resp |-> [kind |-> kind, steps |-> html, footer |-> footer],
   i |-> 0, html |-> <<>>]

\* renderFlow from one await to the next, with i steps rendered so far and
\* their fragments in html. The loop reads flow.steps as it is now: with a
\* step left, renderStep runs for it and the function is suspended at the
\* await of that call (or throws with it); with none left, the footer is
\* chosen from the flow's status as it is now and the page is returned. The
\* awaits of endpointUrl and of renderNextStep that follow read and write
\* nothing of the registry.
renderFlow(fs, context, i, html) ==
  LET flow == fs[context]
  IN IF i < Len(flow.steps)
     THEN LET r == renderStep(context, flow.steps[i + 1])
              fs1 == [fs EXCEPT ![context].steps[i + 1] = r.step]
          IN IF r.outcome = "ok"
             THEN [flows |-> fs1, resp |-> Pending,
                   i |-> i + 1, html |-> Append(html, r.html)]
             ELSE FlowPage(fs1, r.outcome, Append(html, r.html), "")
     ELSE IF flow.status = "done" THEN FlowPage(fs, "flow", html, "completed")
     ELSE IF flow.status = "aborted" THEN FlowPage(fs, "flow", html, "aborted")
     ELSE IF \A k \in 1..Len(flow.steps) : flow.steps[k].status = "done"
     THEN LET n == renderNextStep(fs, context)
          IN FlowPage(n.flows, IF n.outcome = "ok" THEN "flow" ELSE n.outcome,
                      html, n.footer)
     ELSE FlowPage(fs, "flow", html, "")

\* The landing page: every own key of the registry with its title and its
\* indicator.
Indicator(status) ==
  IF status = "done" THEN "check" ELSE IF status = "aborted" THEN "cross" ELSE ""
renderLanding(fs) ==
  [kind |-> "landing",
   items |-> [c \in DOMAIN fs |-> <<fs[c].title, Indicator(fs[c].status)>>]]

renderRedirect(message) == [kind |-> "redirect", message |-> message]

\* ----------------------------------------------------------------- endpoint
\* JSON.parse(body)?.value for the bodies of BodyTexts; threw when the text
\* is not JSON.
JSON_parse_value(text) ==
  IF text \in {"", "oops"} THEN [threw |-> TRUE, value |-> None]
  ELSE IF text = "{\"value\":\"\"}" THEN [threw |-> FALSE, value |-> Str("")]
  ELSE IF text = "{\"value\":\"Ada\"}" THEN [threw |-> FALSE, value |-> Str("Ada")]
  ELSE IF text = "{\"value\":\"Bob\"}" THEN [threw |-> FALSE, value |-> Str("Bob")]
  ELSE [threw |-> FALSE, value |-> None]

\* !x of JavaScript for an absent value or a string.
Falsy(v) == ~v.defined \/ v.text = ""

startsWithFlow(path) == Len(path) >= 2 /\ path[1] = "flow"
\* path.split("/").slice(2): the context and the step id (0 when absent).
pathContext(path) == path[2]
pathStepId(path) == IF Len(path) >= 3 THEN path[3] ELSE 0

Error(message, status) == [kind |-> "error", error |-> message, status |-> status]

\* The GET branch and the landing page. renderFlow iterates flow.steps,
\* which throws for an inherited name.
endpointGet(fs, inh, method, path) ==
  IF method = "GET" /\ startsWithFlow(path)
  THEN IF inFlows(fs, inh, pathContext(path))
       THEN IF pathContext(path) \in DOMAIN fs
            THEN renderFlow(fs, pathContext(path), 0, <<>>)
            ELSE Answered(fs, TypeError)
       ELSE Answered(fs, renderRedirect("Flow not found"))
  ELSE Answered(fs, renderLanding(fs))

\* An endpoint that looks at the body only once a step is found.
endpoint_no_body_check(fs, inh, method, path, body) ==
  IF method = "POST" /\ startsWithFlow(path)
  THEN LET context == pathContext(path)
           stepId == pathStepId(path)
       IN IF inFlows(fs, inh, context)
          THEN IF context \notin DOMAIN fs THEN Answered(fs, TypeError)
               ELSE IF find(fs[context].steps, stepId) # 0
               THEN LET parsed == JSON_parse_value(body.text)
                    IN IF ~body.present \/ parsed.threw
                       THEN Answered(fs, [kind |-> "throw", error |-> "SyntaxError"])
                       ELSE IF Falsy(parsed.value)
                       THEN Answered(fs, Error("Value required", 400))
                       ELSE renderFlow(resolve(fs, context, stepId, parsed.value),
                                       context, 0, <<>>)
               ELSE endpointGet(fs, inh, method, path)
          ELSE endpointGet(fs, inh, method, path)
  ELSE endpointGet(fs, inh, method, path)
\* An endpoint that looks the step up in every flow of the registry.
endpoint_any_flow(fs, inh, method, path, body) ==
  IF method = "POST" /\ startsWithFlow(path)
  THEN IF ~body.present \/ body.text = ""
       THEN Answered(fs, Error("Body required", 400))
       ELSE LET context == pathContext(path)
                stepId == pathStepId(path)
                owners == {c \in DOMAIN fs : find(fs[c].steps, stepId) # 0}
            IN IF inFlows(fs, inh, context)
               THEN IF context \notin DOMAIN fs THEN Answered(fs, TypeError)
                    ELSE IF owners # {}
                    THEN LET parsed == JSON_parse_value(body.text)
                             owner == CHOOSE c \in owners : TRUE
                         IN IF parsed.threw
                            THEN Answered(fs, [kind |-> "throw", error |-> "SyntaxError"])
                            ELSE IF Falsy(parsed.value)
                            THEN Answered(fs, Error("Value required", 400))
                            ELSE renderFlow(resolve(fs, owner, stepId, parsed.value),
                                            context, 0, <<>>)
                    ELSE endpointGet(fs, inh, method, path)
               ELSE endpointGet(fs, inh, method, path)
  ELSE endpointGet(fs, inh, method, path)
\* endpoint up to its return or its first await: the body test, the lookup
\* of the flow (flow.steps.find throws for an inherited name) and of the
\* step, the value test, step.resolve, and renderFlow up to its first await.
\* A POST that finds no flow or no step falls through to the landing page.
endpoint(fs, inh, method, path, body) ==
  IF method = "POST" /\ startsWithFlow(path)
  THEN IF ~body.present \/ body.text = ""
       THEN Answered(fs, Error("Body required", 400))
       ELSE LET context == pathContext(path)
                stepId == pathStepId(path)
            IN IF inFlows(fs, inh, context)
               THEN IF context \notin DOMAIN fs THEN Answered(fs, TypeError)
                    ELSE IF find(fs[context].steps, stepId) # 0
                    THEN LET parsed == JSON_parse_value(body.text)
                         IN IF parsed.threw
                            THEN Answered(fs, [kind |-> "throw", error |-> "SyntaxError"])
                            ELSE IF Falsy(parsed.value)
                            THEN Answered(fs, Error("Value required", 400))
                            ELSE renderFlow(resolve(fs, context, stepId, parsed.value),
                                            context, 0, <<>>)
                    ELSE endpointGet(fs, inh, method, path)
               ELSE endpointGet(fs, inh, method, path)
  ELSE endpointGet(fs, inh, method, path)

\* ---------------------------------------------------------------- actions
\* last is the call or resumption that led to the state: its name (the
\* method, for a request), whether it is the call or a resumption after an
\* await, what it addressed, its argument and what it returned.
Op(op, context, stepId, arg, resp) ==
  [op |-> op, phase |-> "call", path |-> <<>>, context |-> context,
   stepId |-> stepId, arg |-> arg, resp |-> resp]
Request(method, phase, path, body, resp) ==
  [op |-> method, phase |-> phase, path |-> path,
   context |-> IF startsWithFlow(path) THEN pathContext(path) ELSE "",
   stepId |-> IF startsWithFlow(path) THEN pathStepId(path) ELSE 0,
   arg |-> body, resp |-> resp]

\* An endpoint call suspended at an await of renderFlow(context): who
\* called, with which method, the flow that is rendered, the number of steps
\* rendered and their fragments.
Call(client, method, context, r) ==
  [client |-> client, method |-> method, context |-> context,
   i |-> r.i, html |-> r.html]
\* The suspended calls after a piece of the call of a client: it stays
\* suspended or it has returned.
Suspended(calls, client, method, context, r) ==
  IF r.resp = Pending
  THEN {c \in calls : c.client # client} \cup {Call(client, method, context, r)}
  ELSE {c \in calls : c.client # client}

Init ==
  /\ flows = <<>>
  /\ proto = Inherited
  /\ timer = [c \in Contexts |-> "none"]
  /\ ref = [c \in Contexts |-> None]
  /\ nextId = 1
  /\ pending = {}
  /\ last = Op("init", "", 0, None, Returned)

Io(context, title) ==
  /\ flows' = io(flows, proto, title, context)
  /\ last' = Op("io", context, 0, Str(title), Returned)
  /\ UNCHANGED <<proto, timer, ref, nextId, pending>>

\* start: a fresh context from genId, the reference root.io({context,
\* title}) and the timeout scheduled on it with $invokeIn. Whether building
\* the reference runs io is up to the host: where it does (eager), the flow
\* is registered by start; where it does not, it is registered when io runs
\* ahead of an action called through the reference.
Start(context, title, eager) ==
  /\ context \notin DOMAIN flows
  /\ timer[context] = "none"
  /\ flows' = IF eager THEN io(flows, proto, title, context) ELSE flows
  /\ timer' = [timer EXCEPT ![context] = "scheduled"]
  /\ ref' = [ref EXCEPT ![context] = Str(title)]
  /\ last' = Op("start", context, 0, Str(title), Returned)
  /\ UNCHANGED <<proto, nextId, pending>>

\* IO.inputText with the next id for the step. The id drawn before a push
\* that throws is dropped.
InputText(context, label) ==
  LET r == IO_inputText(flows, proto, context, nextId, label)
  IN /\ r.resp = Returned => nextId <= MaxSteps
     /\ flows' = r.flows
     /\ nextId' = IF r.resp = Returned THEN nextId + 1 ELSE nextId
     /\ last' = Op("inputText", context,
                   IF r.resp = Returned THEN nextId ELSE 0, Str(label), r.resp)
     /\ UNCHANGED <<proto, timer, ref, pending>>

\* The timeout invoked by the scheduler, once per start, through the
\* reference root.io({context, title}).timeout({context}). Where the host
\* resolves the parent of an action first (parentFirst), io runs with the
\* arguments of the reference before IO.timeout does; last.arg is the title
\* of that io call.
TimeoutFired(context, parentFirst) ==
  LET fs == IF parentFirst
            THEN io(flows, proto, ref[context].text, context) ELSE flows
      r == IO_timeout(fs, proto, context)
  IN /\ timer[context] = "scheduled"
     /\ flows' = r.flows
     /\ timer' = [timer EXCEPT ![context] = "delivered"]
     /\ last' = Op("timeout", context, 0,
                   IF parentFirst THEN ref[context] ELSE None, r.resp)
     /\ UNCHANGED <<proto, ref, nextId, pending>>

\* IO.timeout invoked as an action of the io node, for any context.
Timeout(context) ==
  /\ flows' = IO_timeout(flows, proto, context).flows
  /\ last' = Op("timeout", context, 0, None, IO_timeout(flows, proto, context).resp)
  /\ UNCHANGED <<proto, timer, ref, nextId, pending>>

End(context) ==
  /\ flows' = IO_end(flows, proto, context).flows
  /\ proto' = IO_end(flows, proto, context).proto
  /\ last' = Op("end", context, 0, None, IO_end(flows, proto, context).resp)
  /\ UNCHANGED <<timer, ref, nextId, pending>>

\* A request of a client arrives, whatever calls of other clients are
\* suspended: endpoint runs up to its return or its first await.
Endpoint(client, method, path, body) ==
  /\ \A c \in pending : c.client # client
  /\ LET r == endpoint(flows, proto, method, path, body)
     IN /\ flows' = r.flows
        /\ pending' = Suspended(pending, client, method, pathContext(path), r)
        /\ last' = Request(method, "call", path, body, r.resp)
  /\ UNCHANGED <<proto, timer, ref, nextId>>

\* A suspended rendering goes on after its await, up to the next await or
\* to the page it returns.
Resume(call) ==
  /\ call \in pending
  /\ LET r == renderFlow(flows, call.context, call.i, call.html)
     IN /\ flows' = r.flows
        /\ pending' = Suspended(pending, call.client, call.method, call.context, r)
        /\ last' = Request(call.method, "resume", <<"flow", call.context>>,
                           NoBody, r.resp)
  /\ UNCHANGED <<proto, timer, ref, nextId>>

\* The life of a flow: start and the timeout it schedules, io, the actions
\* of the io node, the flow page and the answers to its steps.
Next ==
  \/ \E c \in Contexts, t \in Titles : Io(c, t)
  \/ \E c \in Contexts, t \in Titles, eager \in BOOLEAN : Start(c, t, eager)
  \/ \E c \in Contexts, l \in Labels : InputText(c, l)
  \/ \E c \in Contexts, parentFirst \in BOOLEAN : TimeoutFired(c, parentFirst)
  \/ \E c \in Contexts : Timeout(c)
  \/ \E c \in Contexts : End(c)
  \/ \E k \in Clients, p \in FlowPaths : Endpoint(k, "GET", p, NoBody)
  \/ \E k \in Clients, p \in StepPaths : Endpoint(k, "POST", p, Answer)
  \/ \E call \in pending : Resume(call)

Spec == Init /\ [][Next]_vars

\* The timeout scheduled by start is delivered: $invokeIn runs it once. A
\* suspended rendering goes on: what it awaits is settled.
LiveSpec ==
  /\ Init /\ [][Next]_vars
  /\ \A c \in Contexts :
       WF_vars(\E parentFirst \in BOOLEAN : TimeoutFired(c, parentFirst))
  /\ WF_vars(\E call \in pending : Resume(call))

\* The answers: the steps of a flow are answered with either value, by
\* either caller, next to the timeout and end.
AnswerNext ==
  \/ \E c \in Contexts, t \in Titles : Io(c, t)
  \/ \E c \in Contexts, l \in Labels : InputText(c, l)
  \/ \E c \in Contexts : Timeout(c)
  \/ \E c \in Contexts : End(c)
  \/ \E k \in Clients, p \in FlowPaths : Endpoint(k, "GET", p, NoBody)
  \/ \E k \in Clients, p \in StepPaths, b \in Answers : Endpoint(k, "POST", p, b)
  \/ \E call \in pending : Resume(call)

AnswerSpec == Init /\ [][AnswerNext]_vars

\* The requests: every method and path with every body, for a flow that io
\* registers and whose steps inputText creates.
HttpNext ==
  \/ \E c \in Contexts, t \in Titles : Io(c, t)
  \/ \E c \in Contexts, l \in Labels : InputText(c, l)
  \/ \E k \in Clients, p \in Paths : Endpoint(k, "GET", p, NoBody)
  \/ \E k \in Clients, p \in StepPaths, b \in Bodies : Endpoint(k, "POST", p, b)
  \/ \E k \in Clients, p \in Paths \ StepPaths : Endpoint(k, "POST", p, Answer)
  \/ \E call \in pending : Resume(call)

HttpSpec == Init /\ [][HttpNext]_vars

\* The registry with two flows, whose step ids come from one source.
RegistryNext ==
  \/ \E c \in Registered, t \in Titles : Io(c, t)
  \/ \E c \in Registered, l \in Labels : InputText(c, l)
  \/ \E c \in Registered : Timeout(c)
  \/ \E c \in Registered : End(c)
  \/ \E k \in Clients, c \in Registered, i \in StepIds :
       Endpoint(k, "POST", <<"flow", c, i>>, Answer)
  \/ \E call \in pending : Resume(call)

RegistrySpec == Init /\ [][RegistryNext]_vars

\* What the plain object inherits: io is called with the names of Named,
\* and the actions of the io node and the requests address them and an
\* unknown id.
PrototypeNext ==
  \/ \E c \in Named, t \in Titles : Io(c, t)
  \/ \E c \in Addressed, l \in Labels : InputText(c, l)
  \/ \E c \in Addressed : Timeout(c)
  \/ \E c \in Addressed : End(c)
  \/ \E k \in Clients, c \in Addressed : Endpoint(k, "GET", <<"flow", c>>, NoBody)
  \/ \E k \in Clients, c \in Addressed, i \in StepIds :
       Endpoint(k, "POST", <<"flow", c, i>>, Answer)
  \/ \E call \in pending : Resume(call)

PrototypeSpec == Init /\ [][PrototypeNext]_vars

\* ------------------------------------------------------------------ claims
Terminal == {"done", "aborted"}
StepsOf(c) == IF c \in DOMAIN flows THEN flows[c].steps ELSE <<>>
Timeout_reason == Str("Timeout")
\* A body that parses and carries a non-empty value / no usable value.
WellFormed(body) ==
  /\ body.present
  /\ body.text # ""
  /\ ~JSON_parse_value(body.text).threw
  /\ ~Falsy(JSON_parse_value(body.text).value)
NoUsableValue(body) ==
  /\ body.present
  /\ body.text # ""
  /\ ~JSON_parse_value(body.text).threw
  /\ Falsy(JSON_parse_value(body.text).value)

\* C1: once a step's status is done or aborted, no later operation changes
\* that step's status.
C1_TerminalStatusKept ==
  [][\A c \in DOMAIN flows : \A i \in 1..Len(flows[c].steps) :
       flows[c].steps[i].status \in Terminal
         => flows'[c].steps[i].status = flows[c].steps[i].status]_vars

\* C2: a settled awaitable (completed with a value or failed with a reason)
\* keeps its outcome under every later operation; a second POST with another
\* value leaves the first value.
C2_AwaitableSettlesOnce ==
  [][\A c \in DOMAIN flows : \A i \in 1..Len(flows[c].steps) :
       flows[c].steps[i].result.state # "pending"
         => flows'[c].steps[i].result = flows[c].steps[i].result]_vars

\* A POST was accepted for a step whose awaited value is another one.
C2_Witness ==
  /\ last.op = "POST"
  /\ last.phase = "call"
  /\ WellFormed(last.arg)
  /\ last.resp = Pending
  /\ \E i \in 1..Len(StepsOf(last.context)) :
       LET step == flows[last.context].steps[i]
       IN /\ step.id = last.stepId
          /\ step.result.state = "fulfilled"
          /\ step.result.value # JSON_parse_value(last.arg.text).value

\* C3: a step never has status done with a failed awaitable, nor status
\* aborted with a completed awaitable, whatever the order of the POST and
\* the timeout.
C3_ConsistentOutcome ==
  \A c \in DOMAIN flows : \A i \in 1..Len(flows[c].steps) :
    LET step == flows[c].steps[i]
    IN /\ ~(step.status = "done" /\ step.result.state = "rejected")
       /\ ~(step.status = "aborted" /\ step.result.state = "fulfilled")

\* C4: a flow's status never goes from done to aborted nor from aborted to
\* done.
C4_FlowStatusMonotonic ==
  [][\A c \in DOMAIN flows :
       /\ flows[c].status = "done" => flows'[c].status # "aborted"
       /\ flows[c].status = "aborted" => flows'[c].status # "done"]_vars

\* C5: a timeout delivered to a known flow with a step that is not done
\* leaves every such step aborted with its awaitable failed with "Timeout",
\* every done step as it was, and the flow aborted.
C5_TimeoutAbortsPending ==
  [][(/\ last'.op = "timeout"
      /\ last'.context \in DOMAIN flows
      /\ \E i \in 1..Len(flows[last'.context].steps) :
           flows[last'.context].steps[i].status # "done")
     => LET c == last'.context
        IN /\ Len(flows'[c].steps) = Len(flows[c].steps)
           /\ \A i \in 1..Len(flows[c].steps) :
                IF flows[c].steps[i].status # "done"
                THEN /\ flows'[c].steps[i].status = "aborted"
                     /\ flows'[c].steps[i].result =
                          [state |-> "rejected", value |-> Timeout_reason]
                ELSE flows'[c].steps[i] = flows[c].steps[i]
           /\ flows'[c].status = "aborted"]_vars

\* The timeout has just aborted a step that had been rendered, next to a
\* step that was answered.
C5_Witness ==
  /\ last.op = "timeout"
  /\ last.context \in DOMAIN flows
  /\ flows[last.context].status = "aborted"
  /\ Len(flows[last.context].steps) = 2
  /\ flows[last.context].steps[1].status = "done"
  /\ flows[last.context].steps[1].result.state = "fulfilled"
  /\ flows[last.context].steps[2].status = "aborted"
  /\ flows[last.context].steps[2].result =
       [state |-> "rejected", value |-> Timeout_reason]

\* C6: a timeout delivered to a flow whose steps are all done (or that has
\* no steps) changes neither the flow's status nor any step nor any
\* awaitable.
C6_TimeoutAfterCompletion ==
  [][(/\ last'.op = "timeout"
      /\ last'.context \in DOMAIN flows
      /\ \A i \in 1..Len(flows[last'.context].steps) :
           flows[last'.context].steps[i].status = "done")
     => flows' = flows]_vars

\* The timeout was delivered to a flow with answered steps only, and the
\* flow is not aborted.
C6_Witness ==
  /\ last.op = "timeout"
  /\ last.context \in DOMAIN flows
  /\ timer[last.context] = "delivered"
  /\ flows[last.context].status # "aborted"
  /\ Len(flows[last.context].steps) >= 1
  /\ \A i \in 1..Len(flows[last.context].steps) :
       /\ flows[last.context].steps[i].status = "done"
       /\ flows[last.context].steps[i].result.state = "fulfilled"

\* C7: with the scheduled timeout delivered, every step created in a flow
\* begun by start eventually is done or aborted with its awaitable settled.
C7_EveryStepSettles ==
  \A c \in Contexts : \A i \in 1..MaxSteps :
    (timer[c] # "none" /\ Len(StepsOf(c)) >= i)
      ~> (/\ Len(StepsOf(c)) >= i
          /\ flows[c].steps[i].status \in Terminal
          /\ flows[c].steps[i].result.state # "pending")

\* C8: a POST with a non-empty value for a step that is not terminal
\* completes the awaitable with that value and marks the step done, and
\* end() on a flow with steps returns and leaves the flow done.
C8_PostSettlesStep ==
  [][/\ (/\ last'.op = "POST"
         /\ last'.phase = "call"
         /\ startsWithFlow(last'.path)
         /\ last'.arg.present
         /\ ~JSON_parse_value(last'.arg.text).threw
         /\ ~Falsy(JSON_parse_value(last'.arg.text).value)
         /\ last'.context \in DOMAIN flows
         /\ find(flows[last'.context].steps, last'.stepId) # 0
         /\ flows[last'.context].steps[find(flows[last'.context].steps,
                                            last'.stepId)].status \notin Terminal)
        => LET i == find(flows[last'.context].steps, last'.stepId)
               step == flows'[last'.context].steps[i]
           IN /\ step.status = "done"
              /\ step.result = [state |-> "fulfilled",
                                value |-> JSON_parse_value(last'.arg.text).value]
     /\ (/\ last'.op = "end"
         /\ last'.context \in DOMAIN flows
         /\ Len(flows[last'.context].steps) >= 1)
        => /\ last'.resp = Returned
           /\ flows'[last'.context].status = "done"]_vars

\* Two steps were answered one after the other and end() was called.
C8_Witness ==
  /\ last.op = "end"
  /\ last.context \in DOMAIN flows
  /\ flows[last.context].status = "done"
  /\ Len(flows[last.context].steps) = 2
  /\ \A i \in 1..2 :
       /\ flows[last.context].steps[i].status = "done"
       /\ flows[last.context].steps[i].result.state = "fulfilled"
  /\ flows[last.context].steps[1].result.value
       # flows[last.context].steps[2].result.value

\* C9: a flow's status becomes done only in an end() call on that flow.
C9_DoneOnlyByEnd ==
  [][\A c \in DOMAIN flows' :
       (/\ flows'[c].status = "done"
        /\ (c \notin DOMAIN flows \/ flows[c].status # "done"))
         => (last'.op = "end" /\ last'.context = c)]_vars

\* The last step of a flow was just answered by POST, every step is done,
\* and the flow is not done.
C9_Witness ==
  /\ last.op = "POST"
  /\ last.resp.kind = "flow"
  /\ last.context \in DOMAIN flows
  /\ Len(flows[last.context].steps) = 2
  /\ \A i \in 1..2 : flows[last.context].steps[i].status = "done"
  /\ flows[last.context].status = "not-started"

\* C10: a POST to a /flow/ path with an empty or absent body returns the
\* error with status 400 and changes nothing.
C10_EmptyBodyRejected ==
  [][(/\ last'.op = "POST"
      /\ last'.phase = "call"
      /\ startsWithFlow(last'.path)
      /\ (~last'.arg.present \/ last'.arg.text = ""))
     => /\ last'.resp.kind = "error"
        /\ last'.resp.status = 400
        /\ flows' = flows
        /\ proto' = proto
        /\ timer' = timer
        /\ ref' = ref
        /\ nextId' = nextId
        /\ pending' = pending]_vars

\* An empty body was posted to the path of a step that waits for its answer.
C10_Witness ==
  /\ last.op = "POST"
  /\ last.phase = "call"
  /\ last.arg.present
  /\ last.arg.text = ""
  /\ last.resp = Error("Body required", 400)
  /\ last.context \in DOMAIN flows
  /\ \E i \in 1..Len(flows[last.context].steps) :
       /\ flows[last.context].steps[i].id = last.stepId
       /\ flows[last.context].steps[i].status \notin Terminal

\* C11: a POST to a /flow/ path whose body is present but carries no usable
\* value returns the error with status 400, also when the addressed flow or
\* step does not exist.
C11_MissingValueRejected ==
  [][(/\ last'.op = "POST"
      /\ last'.phase = "call"
      /\ startsWithFlow(last'.path)
      /\ NoUsableValue(last'.arg))
     => /\ last'.resp.kind = "error"
        /\ last'.resp.status = 400]_vars

\* C12: a POST with a well-formed body addressed to a flow id that is not in
\* the registry returns a 404 error response and changes no state.
C12_UnknownFlowPostIs404 ==
  [][(/\ last'.op = "POST"
      /\ last'.phase = "call"
      /\ startsWithFlow(last'.path)
      /\ WellFormed(last'.arg)
      /\ last'.context \notin DOMAIN flows)
     => /\ last'.resp.kind = "error"
        /\ last'.resp.status = 404
        /\ flows' = flows
        /\ timer' = timer
        /\ nextId' = nextId]_vars

\* C13: inputText and end addressed at a flow id that is not in the registry
\* fail with "Flow not started", a timeout for such an id returns, and none
\* of them changes the registry or what a later call finds in it.
C13_AbsentFlowUntouched ==
  [][/\ (last'.op \in {"inputText", "end"} /\ last'.context \notin DOMAIN flows)
        => /\ last'.resp = NotStartedError
           /\ flows' = flows
           /\ proto' = proto
           /\ nextId' = nextId
     /\ (last'.op = "timeout" /\ last'.context \notin DOMAIN flows)
        => /\ last'.resp = Returned
           /\ flows' = flows
           /\ proto' = proto
           /\ nextId' = nextId]_vars

\* C14: the steps of a flow only grow at the end: the ids and labels before
\* a transition are a prefix of those after it, only inputText on that flow
\* appends, and it appends one step with status not-started.
C14_StepsAppendOnly ==
  [][/\ \A c \in DOMAIN flows :
          /\ c \in DOMAIN flows'
          /\ Len(flows'[c].steps) >= Len(flows[c].steps)
          /\ \A i \in 1..Len(flows[c].steps) :
               /\ flows'[c].steps[i].id = flows[c].steps[i].id
               /\ flows'[c].steps[i].label = flows[c].steps[i].label
          /\ Len(flows'[c].steps) > Len(flows[c].steps)
               => /\ last'.op = "inputText"
                  /\ last'.context = c
                  /\ Len(flows'[c].steps) = Len(flows[c].steps) + 1
                  /\ flows'[c].steps[Len(flows'[c].steps)].status = "not-started"
                  /\ flows'[c].steps[Len(flows'[c].steps)].id = last'.stepId
     /\ (last'.op = "inputText" /\ last'.resp = Returned)
          => /\ last'.context \in DOMAIN flows
             /\ Len(flows'[last'.context].steps)
                  = Len(flows[last'.context].steps) + 1
     /\ \A c \in DOMAIN flows' \ DOMAIN flows : flows'[c].steps = <<>>]_vars

\* inputText has appended a second step behind a step that was answered.
C14_Witness ==
  /\ last.op = "inputText"
  /\ last.context \in DOMAIN flows
  /\ Len(flows[last.context].steps) = 2
  /\ flows[last.context].steps[1].status = "done"
  /\ flows[last.context].steps[2].status = "not-started"
  /\ flows[last.context].steps[2].id = last.stepId
  /\ flows[last.context].steps[1].id # last.stepId

\* C15: in every state, rendering a step whose status is done succeeds and
\* shows the value its awaitable was completed with by the POST; a POST
\* that was accepted for a step renders the flow and returns the page.
C15_DoneStepRendersValue ==
  /\ \A c \in DOMAIN flows : \A i \in 1..Len(flows[c].steps) :
       flows[c].steps[i].status = "done"
         => LET r == renderStep(c, flows[c].steps[i])
            IN /\ r.outcome = "ok"
               /\ r.html.view = "done"
               /\ flows[c].steps[i].result.state = "fulfilled"
               /\ r.html.text = flows[c].steps[i].result.value
  /\ (/\ last.op = "POST"
      /\ startsWithFlow(last.path)
      /\ last.context \in DOMAIN flows
      /\ \/ last.phase = "resume"
         \/ /\ find(flows[last.context].steps, last.stepId) # 0
            /\ WellFormed(last.arg))
     => last.resp.kind \in {"pending", "flow"}

\* C16: a timeout invocation that finds only done and already aborted steps
\* leaves the flow's status as it was; the status is set to aborted only by
\* an invocation that moves a step from a non-terminal status to aborted.
C16_AbortedOnlyWhenStepCancelled ==
  [][(/\ last'.op = "timeout"
      /\ last'.context \in DOMAIN flows
      /\ \A i \in 1..Len(flows[last'.context].steps) :
           flows[last'.context].steps[i].status \in Terminal)
     => flows'[last'.context].status = flows[last'.context].status]_vars

\* C17: end() changes no step (status and awaitable), adds and removes no
\* step and no flow, and changes no other flow, no timer and no suspended
\* rendering; called on a flow of the registry it returns, leaves that flow
\* done and changes nothing else.
C17_EndChangesStatusOnly ==
  [][last'.op = "end"
     => /\ DOMAIN flows' = DOMAIN flows
        /\ \A c \in DOMAIN flows :
             /\ flows'[c].steps = flows[c].steps
             /\ flows'[c].title = flows[c].title
             /\ c # last'.context => flows'[c] = flows[c]
        /\ last'.context \in DOMAIN flows
             => /\ last'.resp = Returned
                /\ flows'[last'.context].status = "done"
                /\ proto' = proto
        /\ timer' = timer
        /\ ref' = ref
        /\ nextId' = nextId
        /\ pending' = pending]_vars

\* end() was called while one step was answered and another still waits.
C17_Witness ==
  /\ last.op = "end"
  /\ last.context \in DOMAIN flows
  /\ flows[last.context].status = "done"
  /\ Len(flows[last.context].steps) = 2
  /\ flows[last.context].steps[1].status = "done"
  /\ flows[last.context].steps[2].status \notin Terminal
  /\ flows[last.context].steps[2].result.state = "pending"

\* C18: io with a context that is in the registry changes nothing (title,
\* status and steps of that flow stay), io with a new context adds a flow
\* with that title, status not-started and no steps, and no operation
\* removes a flow or changes a title.
C18_FlowCreationIdempotent ==
  [][/\ \A c \in DOMAIN flows :
          /\ c \in DOMAIN flows'
          /\ flows'[c].title = flows[c].title
     /\ (last'.op = "io" /\ last'.context \in DOMAIN flows)
          => flows' = flows
     /\ (last'.op = "io" /\ last'.context \notin DOMAIN flows)
          => /\ DOMAIN flows' = DOMAIN flows \cup {last'.context}
             /\ flows'[last'.context] =
                  [title |-> last'.arg.text, status |-> "not-started", steps |-> <<>>]
             /\ \A d \in DOMAIN flows : flows'[d] = flows[d]]_vars

\* C19: a step becomes in-progress only from not-started and only in a
\* request that renders its flow; no step returns to not-started, and no
\* done or aborted step becomes in-progress.
C19_StepStatusNeverBackwards ==
  [][\A c \in DOMAIN flows : \A i \in 1..Len(flows[c].steps) :
       /\ (/\ flows'[c].steps[i].status = "in-progress"
           /\ flows[c].steps[i].status # "in-progress")
            => /\ flows[c].steps[i].status = "not-started"
               /\ last'.op \in {"GET", "POST"}
               /\ startsWithFlow(last'.path)
               /\ last'.context = c
       /\ flows'[c].steps[i].status = "not-started"
            => flows[c].steps[i].status = "not-started"
       /\ flows[c].steps[i].status \in Terminal
            => flows'[c].steps[i].status # "in-progress"]_vars

\* A GET has rendered a flow with an aborted step and a step that was
\* not-started: the first is still aborted, the second is in-progress.
C19_Witness ==
  /\ last.op = "GET"
  /\ last.resp.kind = "flow"
  /\ last.context \in DOMAIN flows
  /\ Len(flows[last.context].steps) = 2
  /\ flows[last.context].steps[1].status = "aborted"
  /\ flows[last.context].steps[2].status = "in-progress"

\* C20: a GET changes nothing but the status of not-started steps of the
\* addressed flow, which become in-progress: no awaitable, no done or
\* aborted step, no flow status, no step sequence and no registry key
\* changes; a GET for an unknown flow id changes nothing and returns the
\* not-found redirect.
C20_GetOnlyMarksInProgress ==
  [][last'.op = "GET"
     => /\ DOMAIN flows' = DOMAIN flows
        /\ timer' = timer
        /\ nextId' = nextId
        /\ \A c \in DOMAIN flows :
             /\ flows'[c].status = flows[c].status
             /\ flows'[c].title = flows[c].title
             /\ Len(flows'[c].steps) = Len(flows[c].steps)
             /\ \A i \in 1..Len(flows[c].steps) :
                  \/ flows'[c].steps[i] = flows[c].steps[i]
                  \/ /\ startsWithFlow(last'.path)
                     /\ c = last'.context
                     /\ flows[c].steps[i].status = "not-started"
                     /\ flows'[c].steps[i] =
                          [flows[c].steps[i] EXCEPT !.status = "in-progress"]
        /\ (startsWithFlow(last'.path) /\ last'.context \notin DOMAIN flows)
             => /\ flows' = flows
                /\ last'.resp = renderRedirect("Flow not found")]_vars

\* C21: a POST addressed to flow f and step s changes no flow other than f
\* and, in f, neither completes the awaitable of a step other than s nor
\* marks such a step done; a timeout for flow f changes no other flow.
C21_FlowAndStepIsolation ==
  [][/\ (last'.op = "POST" /\ startsWithFlow(last'.path))
        => \A c \in DOMAIN flows :
             /\ c # last'.context => flows'[c] = flows[c]
             /\ \A i \in 1..Len(flows[c].steps) :
                  flows[c].steps[i].id # last'.stepId
                    => /\ flows'[c].steps[i].result = flows[c].steps[i].result
                       /\ flows'[c].steps[i].status = "done"
                            => flows[c].steps[i].status = "done"
     /\ last'.op = "timeout"
        => \A c \in DOMAIN flows :
             c # last'.context => flows'[c] = flows[c]]_vars

\* A well-formed POST named a flow with a waiting step of its own together
\* with the id of a waiting step of the other flow: it was not accepted and
\* both steps still wait.
C21_Witness ==
  /\ last.op = "POST"
  /\ last.phase = "call"
  /\ WellFormed(last.arg)
  /\ last.context \in DOMAIN flows
  /\ last.resp.kind = "landing"
  /\ Len(flows[last.context].steps) >= 1
  /\ flows[last.context].steps[1].result.state = "pending"
  /\ \E g \in DOMAIN flows :
       /\ g # last.context
       /\ find(flows[g].steps, last.stepId) # 0
       /\ flows[g].steps[find(flows[g].steps, last.stepId)].result.state = "pending"
       /\ flows[g].steps[find(flows[g].steps, last.stepId)].status \notin Terminal

====

